---- MODULE Spec2Model ----
(***************************************************************************)
(* Model of chipcap2.c, the IIO i2c driver of the ChipCap 2 humidity and   *)
(* temperature sensor: probe/remove of one device instance and the         *)
(* read_raw entry point (Data Fetch transaction + bit-field decoding).     *)
(***************************************************************************)
EXTENDS Integers, Sequences, FiniteSets, TLC

\* ------------------------------------------------------------------------
\* Program constants
\* ------------------------------------------------------------------------
CHIPCAP2_DATA_FETCH == 223

BufLen == 5

U8Max == 255

IIO_VAL_INT == 1

IIO_VAL_FRACTIONAL == 10

EIO == 5

EINVAL == 22

EOPNOTSUPP == 95

ENOMEM == 12

IIO_HUMIDITYRELATIVE == "IIO_HUMIDITYRELATIVE"

IIO_TEMP == "IIO_TEMP"

\* a channel type the driver has no case for
IIO_VOLTAGE == "IIO_VOLTAGE"

IIO_CHAN_INFO_RAW == "IIO_CHAN_INFO_RAW"

IIO_CHAN_INFO_SCALE == "IIO_CHAN_INFO_SCALE"

IIO_CHAN_INFO_OFFSET == "IIO_CHAN_INFO_OFFSET"

\* an info kind the driver has no case for (switch default)
IIO_CHAN_INFO_PROCESSED == "IIO_CHAN_INFO_PROCESSED"

I2C_FUNC_SMBUS_WRITE_BYTE == "I2C_FUNC_SMBUS_WRITE_BYTE"

I2C_FUNC_SMBUS_READ_WORD_DATA == "I2C_FUNC_SMBUS_READ_WORD_DATA"

\* ------------------------------------------------------------------------
\* Bounds and input sets of the model
\* ------------------------------------------------------------------------
\* number of callers that may be inside read_raw at the same time (SpecConc)
NCallers == 2

Callers == 1..NCallers

Byte == 0..U8Max

ChanTypes == {IIO_HUMIDITYRELATIVE, IIO_TEMP, IIO_VOLTAGE}

Masks == {IIO_CHAN_INFO_RAW, IIO_CHAN_INFO_SCALE, IIO_CHAN_INFO_OFFSET,
          IIO_CHAN_INFO_PROCESSED}

Buf5(a, b, c, d, e) == [i \in 0..(BufLen - 1) |->
    CASE i = 0 -> a [] i = 1 -> b [] i = 2 -> c [] i = 3 -> d [] OTHER -> e]

\* What the caller's output cells and the handler's stack buffer hold before
\* the call: they are not initialised by the driver, so any content is possible.
Garbage == { [val |-> -1,  val2 |-> -1,   buf |-> Buf5(255, 255, 255, 255, 255)],
             [val |-> 165, val2 |-> 9929, buf |-> Buf5(0, 0, 0, 0, 0)] }

\* Return values of the transport: negative errno (-ENXIO, -ETIMEDOUT), or a
\* number of bytes transferred, up to the size of the buffer.
TransportRets == {-110, -6} \cup (0..BufLen)

\* Wire contents used for transactions that do not return the requested count.
EdgeData == { Buf5(18, 52, 80, 8, 0), Buf5(255, 255, 255, 255, 255) }

\* Humidity bytes that precede the temperature bytes in a 4-byte reply.
HumPairs == { <<18, 52>>, <<255, 255>> }

\* Environment of the sequential specification: every byte value.
FullEnv == [bytes |-> Byte, rets |-> TransportRets, garbage |-> Garbage]

\* Environment of the concurrent specification: boundary byte values.
SmallEnv == [bytes |-> {8, 255}, rets |-> {-6, 2, 4},
             garbage |-> { [val |-> -1, val2 |-> -1,
                            buf |-> Buf5(255, 255, 255, 255, 255)] }]

\* ------------------------------------------------------------------------
\* C integer helpers
\* ------------------------------------------------------------------------
RECURSIVE BitAnd(_, _)
BitAnd(a, b) == IF a = 0 \/ b = 0 THEN 0
                ELSE (a % 2) * (b % 2) + 2 * BitAnd(a \div 2, b \div 2)

Shl(x, n) == x * (2 ^ n)

\* ------------------------------------------------------------------------
\* State
\* ------------------------------------------------------------------------
VARIABLES
    funcs,      \* functionality bits of the i2c adapter the client sits on
    dev,        \* driver binding: "unbound", "bound" or "probe_failed"
    probeRet,   \* return value of the last chipcap2_probe (0 before any)
    priv,       \* *iio_priv(indio_dev): the stored client, "NULL" if none
    info,       \* indio_dev->info: "chipcap2_info" once set, else "NULL"
    registered, \* the iio device is registered (read_raw reachable)
    call        \* per caller: the read_raw invocation in progress / last done

vars == <<funcs, dev, probeRet, priv, info, registered, call>>

NoCall == [pc |-> "idle", chan |-> "none", mask |-> "none",
           pre |-> [val |-> 0, val2 |-> 0], val |-> 0, val2 |-> 0,
           buf |-> Buf5(0, 0, 0, 0, 0), ret |-> 0, tx |-> <<>>,
           rc |-> 0, wr |-> {}, afterFail |-> FALSE]

\* ------------------------------------------------------------------------
\* chipcap2_channels
\* ------------------------------------------------------------------------
chipcap2_channels ==
    { [type |-> IIO_HUMIDITYRELATIVE,
       info_mask_separate |-> {IIO_CHAN_INFO_RAW, IIO_CHAN_INFO_SCALE}],
      [type |-> IIO_TEMP,
       info_mask_separate |-> {IIO_CHAN_INFO_RAW, IIO_CHAN_INFO_SCALE,
                               IIO_CHAN_INFO_OFFSET}] }

Offered(chan, mask) ==
    \E ch \in chipcap2_channels : ch.type = chan /\ mask \in ch.info_mask_separate

\* ------------------------------------------------------------------------
\* chipcap2_read_raw
\* ------------------------------------------------------------------------
\* number of bytes requested from the sensor for a channel type
FetchLength(chan) == IF chan = IIO_HUMIDITYRELATIVE THEN 2 ELSE 4

\* the paths of the handler that call i2c_smbus_read_i2c_block_data
NeedsBus(r) == /\ r.mask = IIO_CHAN_INFO_RAW
               /\ r.chan \in {IIO_HUMIDITYRELATIVE, IIO_TEMP}

\* mutant: a failed exchange is tried once more inside the call
BlockRead_Retry(r, reply) ==
    LET t == [cmd |-> CHIPCAP2_DATA_FETCH, len |-> FetchLength(r.chan)]
    IN  [r EXCEPT !.pc  = "fetched",
                  !.ret = reply.ret,
                  !.buf = [i \in 0..(BufLen - 1) |->
                              IF i < reply.ret THEN reply.data[i] ELSE r.buf[i]],
                  !.tx  = IF reply.ret = FetchLength(r.chan)
                          THEN Append(@, t) ELSE Append(Append(@, t), t)]

\* i2c_smbus_read_i2c_block_data(*client, CHIPCAP2_DATA_FETCH, length, buf):
\* one command-then-read exchange; the bytes transferred land in buf, the
\* rest of buf keeps what it held.
BlockRead(r, reply) ==
    [r EXCEPT !.pc  = "fetched",
              !.ret = reply.ret,
              !.buf = [i \in 0..(BufLen - 1) |->
                          IF i < reply.ret THEN reply.data[i] ELSE r.buf[i]],
              !.tx  = Append(@, [cmd |-> CHIPCAP2_DATA_FETCH,
                                 len |-> FetchLength(r.chan)])]

\* mutant: the status bits are not masked off
HumidityRaw_NoMask(buf) == Shl(buf[0], 8) + buf[1]

HumidityRaw(buf) == Shl(BitAnd(buf[0], 63), 8) + buf[1]

\* mutant: the temperature is taken from the humidity bytes
TempRaw_WrongBytes(buf) == Shl(buf[0], 6) + (buf[1] \div 4)

TempRaw(buf) == Shl(buf[2], 6) + (buf[3] \div 4)

\* mutant: the buffer is static, shared by the callers inside the handler
DecodeBuf_Static(c) ==
    IF \E d \in Callers \ {c} : call[d].pc = "fetched"
    THEN call[CHOOSE d \in Callers \ {c} : call[d].pc = "fetched"].buf
    ELSE call[c].buf

\* the buffer the decoding reads: the handler's own stack buffer
DecodeBuf(c) == call[c].buf

\* mutant: only a transport error fails the read, any count is decoded
Decode_AcceptsShort(r, buf) ==
    IF r.ret < 0
    THEN [r EXCEPT !.pc = "done", !.rc = -EIO]
    ELSE [r EXCEPT !.pc = "done", !.rc = IIO_VAL_INT, !.wr = @ \cup {"val"},
                   !.val = IF r.chan = IIO_HUMIDITYRELATIVE
                           THEN HumidityRaw(buf) ELSE TempRaw(buf)]

\* after the transaction: length check, decoding, return
Decode(r, buf) ==
    IF r.ret # FetchLength(r.chan)
    THEN [r EXCEPT !.pc = "done", !.rc = -EIO]
    ELSE [r EXCEPT !.pc = "done", !.rc = IIO_VAL_INT, !.wr = @ \cup {"val"},
                   !.val = IF r.chan = IIO_HUMIDITYRELATIVE
                           THEN HumidityRaw(buf) ELSE TempRaw(buf)]

\* mutant: the temperature scale carries the humidity denominator
NoBus_CopiedScale(r) ==
    CASE r.mask = IIO_CHAN_INFO_RAW ->
            [r EXCEPT !.pc = "done", !.rc = IIO_VAL_INT]
      [] r.mask = IIO_CHAN_INFO_SCALE ->
            IF r.chan \in {IIO_HUMIDITYRELATIVE, IIO_TEMP}
            THEN [r EXCEPT !.pc = "done", !.rc = IIO_VAL_FRACTIONAL,
                           !.val = 100, !.val2 = 16384, !.wr = {"val", "val2"}]
            ELSE [r EXCEPT !.pc = "done", !.rc = IIO_VAL_FRACTIONAL]
      [] r.mask = IIO_CHAN_INFO_OFFSET ->
            IF r.chan = IIO_TEMP
            THEN [r EXCEPT !.pc = "done", !.rc = IIO_VAL_INT,
                           !.val = -40, !.wr = {"val"}]
            ELSE [r EXCEPT !.pc = "done", !.rc = IIO_VAL_INT]
      [] OTHER -> [r EXCEPT !.pc = "done", !.rc = -EINVAL]

\* mutant: the temperature offset has the wrong sign
NoBus_PositiveOffset(r) ==
    CASE r.mask = IIO_CHAN_INFO_RAW ->
            [r EXCEPT !.pc = "done", !.rc = IIO_VAL_INT]
      [] r.mask = IIO_CHAN_INFO_SCALE ->
            IF r.chan = IIO_HUMIDITYRELATIVE
            THEN [r EXCEPT !.pc = "done", !.rc = IIO_VAL_FRACTIONAL,
                           !.val = 100, !.val2 = 16384, !.wr = {"val", "val2"}]
            ELSE IF r.chan = IIO_TEMP
            THEN [r EXCEPT !.pc = "done", !.rc = IIO_VAL_FRACTIONAL,
                           !.val = 100, !.val2 = 9929, !.wr = {"val", "val2"}]
            ELSE [r EXCEPT !.pc = "done", !.rc = IIO_VAL_FRACTIONAL]
      [] r.mask = IIO_CHAN_INFO_OFFSET ->
            IF r.chan = IIO_TEMP
            THEN [r EXCEPT !.pc = "done", !.rc = IIO_VAL_INT,
                           !.val = 40, !.wr = {"val"}]
            ELSE [r EXCEPT !.pc = "done", !.rc = IIO_VAL_INT]
      [] OTHER -> [r EXCEPT !.pc = "done", !.rc = -EINVAL]

\* the paths of the handler without a transaction
NoBus(r) ==
    CASE r.mask = IIO_CHAN_INFO_RAW ->
            [r EXCEPT !.pc = "done", !.rc = IIO_VAL_INT]
      [] r.mask = IIO_CHAN_INFO_SCALE ->
            IF r.chan = IIO_HUMIDITYRELATIVE
            THEN [r EXCEPT !.pc = "done", !.rc = IIO_VAL_FRACTIONAL,
                           !.val = 100, !.val2 = 16384, !.wr = {"val", "val2"}]
            ELSE IF r.chan = IIO_TEMP
            THEN [r EXCEPT !.pc = "done", !.rc = IIO_VAL_FRACTIONAL,
                           !.val = 100, !.val2 = 9929, !.wr = {"val", "val2"}]
            ELSE [r EXCEPT !.pc = "done", !.rc = IIO_VAL_FRACTIONAL]
      [] r.mask = IIO_CHAN_INFO_OFFSET ->
            IF r.chan = IIO_TEMP
            THEN [r EXCEPT !.pc = "done", !.rc = IIO_VAL_INT,
                           !.val = -40, !.wr = {"val"}]
            ELSE [r EXCEPT !.pc = "done", !.rc = IIO_VAL_INT]
      [] OTHER -> [r EXCEPT !.pc = "done", !.rc = -EINVAL]

\* ------------------------------------------------------------------------
\* Replies of the sensor/transport to one Data Fetch
\* ------------------------------------------------------------------------
Replies(chan, env) ==
    LET n == FetchLength(chan)
        good == IF chan = IIO_HUMIDITYRELATIVE
                THEN { Buf5(a, b, 0, 0, 0) : a \in env.bytes, b \in env.bytes }
                ELSE { Buf5(h[1], h[2], x[1], x[2], 0) :
                         h \in HumPairs, x \in env.bytes \X env.bytes }
    IN  { [ret |-> n, data |-> d] : d \in good }
        \cup { [ret |-> m, data |-> d] : m \in env.rets \ {n}, d \in EdgeData }

\* ------------------------------------------------------------------------
\* Actions
\* ------------------------------------------------------------------------
Init ==
    /\ funcs \in SUBSET {I2C_FUNC_SMBUS_WRITE_BYTE, I2C_FUNC_SMBUS_READ_WORD_DATA}
    /\ dev = "unbound"
    /\ probeRet = 0
    /\ priv = "NULL"
    /\ info = "NULL"
    /\ registered = FALSE
    /\ call = [c \in Callers |-> NoCall]

\* mutant: one of the two required functionalities is enough
i2c_check_functionality_Any(f) ==
    {I2C_FUNC_SMBUS_WRITE_BYTE, I2C_FUNC_SMBUS_READ_WORD_DATA} \cap f # {}

i2c_check_functionality(f) ==
    {I2C_FUNC_SMBUS_WRITE_BYTE, I2C_FUNC_SMBUS_READ_WORD_DATA} \subseteq f

\* chipcap2_probe; allocOk and regRet are the outcomes of
\* devm_iio_device_alloc and devm_iio_device_register
chipcap2_probe ==
    /\ dev # "bound"
    /\ \E allocOk \in BOOLEAN, regRet \in {0, -ENOMEM} :
         IF ~i2c_check_functionality(funcs)
         THEN /\ probeRet' = -EOPNOTSUPP
              /\ dev' = "probe_failed"
              /\ UNCHANGED <<priv, info, registered>>
         ELSE IF ~allocOk
         THEN /\ probeRet' = -ENOMEM
              /\ dev' = "probe_failed"
              /\ UNCHANGED <<priv, info, registered>>
         ELSE /\ priv' = IF regRet = 0 THEN "client" ELSE "NULL"
              /\ info' = IF regRet = 0 THEN "chipcap2_info" ELSE "NULL"
              /\ registered' = (regRet = 0)
              /\ probeRet' = regRet
              /\ dev' = IF regRet = 0 THEN "bound" ELSE "probe_failed"
    /\ UNCHANGED <<funcs, call>>

\* chipcap2_remove: unregisters; the devm allocation is released with the
\* device, and the callers are gone with the attributes.
chipcap2_remove ==
    /\ dev = "bound"
    /\ \A c \in Callers : call[c].pc \in {"idle", "done"}
    /\ registered' = FALSE
    /\ priv' = "NULL"
    /\ info' = "NULL"
    /\ dev' = "unbound"
    /\ call' = [c \in Callers |-> NoCall]
    /\ UNCHANGED <<funcs, probeRet>>

\* A caller enters read_raw through the registered iio_info with a channel,
\* an info kind and output cells holding whatever they held before.
Request(c, env) ==
    /\ registered /\ info = "chipcap2_info"
    /\ call[c].pc = "idle"
    /\ \E chan \in ChanTypes, mask \in Masks, g \in env.garbage :
         call' = [call EXCEPT ![c] =
                    [NoCall EXCEPT !.pc = "called", !.chan = chan, !.mask = mask,
                                   !.pre = [val |-> g.val, val2 |-> g.val2],
                                   !.val = g.val, !.val2 = g.val2, !.buf = g.buf,
                                   !.afterFail = call[c].afterFail]]
    /\ UNCHANGED <<funcs, dev, probeRet, priv, info, registered>>

\* the whole handler, from dispatch to return
chipcap2_read_raw(c, env) ==
    /\ call[c].pc = "called"
    /\ priv = "client"
    /\ IF NeedsBus(call[c])
       THEN \E reply \in Replies(call[c].chan, env) :
              LET f == BlockRead(call[c], reply)
              IN  call' = [call EXCEPT ![c] = Decode(f, f.buf)]
       ELSE call' = [call EXCEPT ![c] = NoBus(call[c])]
    /\ UNCHANGED <<funcs, dev, probeRet, priv, info, registered>>

\* The handler in the steps other callers can interleave with: the blocking
\* bus transaction, and what follows it.
Fetch(c, env) ==
    /\ call[c].pc = "called"
    /\ priv = "client"
    /\ NeedsBus(call[c])
    /\ \E reply \in Replies(call[c].chan, env) :
         call' = [call EXCEPT ![c] = BlockRead(call[c], reply)]
    /\ UNCHANGED <<funcs, dev, probeRet, priv, info, registered>>

Return(c) ==
    /\ call[c].pc = "fetched"
    /\ call' = [call EXCEPT ![c] = Decode(call[c], DecodeBuf(c))]
    /\ UNCHANGED <<funcs, dev, probeRet, priv, info, registered>>

Direct(c) ==
    /\ call[c].pc = "called"
    /\ priv = "client"
    /\ ~NeedsBus(call[c])
    /\ call' = [call EXCEPT ![c] = NoBus(call[c])]
    /\ UNCHANGED <<funcs, dev, probeRet, priv, info, registered>>

\* The caller takes the returned result and leaves; nothing of the call is
\* kept but whether it failed with -EIO (history, for the re-issue property).
Leave(c) ==
    /\ call[c].pc = "done"
    /\ call' = [call EXCEPT ![c] =
                 [NoCall EXCEPT !.afterFail = (call[c].rc = -EIO)]]
    /\ UNCHANGED <<funcs, dev, probeRet, priv, info, registered>>

Next ==
    \/ chipcap2_probe
    \/ chipcap2_remove
    \/ Request(1, FullEnv)
    \/ chipcap2_read_raw(1, FullEnv)
    \/ Leave(1)

Spec == Init /\ [][Next]_vars

NextConc ==
    \/ chipcap2_probe
    \/ chipcap2_remove
    \/ \E c \in Callers : Request(c, SmallEnv)
    \/ \E c \in Callers : Fetch(c, SmallEnv)
    \/ \E c \in Callers : Return(c)
    \/ \E c \in Callers : Direct(c)
    \/ \E c \in Callers : Leave(c)

SpecConc == Init /\ [][NextConc]_vars

\* ------------------------------------------------------------------------
\* Properties
\* ------------------------------------------------------------------------
Done(c) == call[c].pc = "done"

RawOf(c, chan) == /\ Done(c)
                  /\ call[c].mask = IIO_CHAN_INFO_RAW
                  /\ call[c].chan = chan

\* C1: a Humidity/Raw read whose transaction returned exactly 2 bytes succeeds
\* with the integer result type and the value (buf[0] mod 64) * 256 + buf[1],
\* which lies in 0..16383; the two status bits of byte 0 do not enter it.
C1_HumidityRaw ==
    \A c \in Callers :
      (RawOf(c, IIO_HUMIDITYRELATIVE) /\ call[c].ret = 2) =>
        /\ call[c].rc = IIO_VAL_INT
        /\ call[c].val = (call[c].buf[0] % 64) * 256 + call[c].buf[1]
        /\ call[c].val \in 0..16383

C1_Witness ==
    /\ RawOf(1, IIO_HUMIDITYRELATIVE) /\ call[1].ret = 2
    /\ call[1].buf[0] = 146 /\ call[1].buf[1] = 52
    /\ call[1].val = 4660

\* C2: a Temperature/Raw read whose transaction returned exactly 4 bytes
\* succeeds with the integer result type and the value
\* buf[2] * 64 + buf[3] div 4, which is non-negative and does not depend on
\* bytes 0 and 1.
C2_TemperatureRaw ==
    \A c \in Callers :
      (RawOf(c, IIO_TEMP) /\ call[c].ret = 4) =>
        /\ call[c].rc = IIO_VAL_INT
        /\ call[c].val = call[c].buf[2] * 64 + (call[c].buf[3] \div 4)
        /\ call[c].val >= 0

C2_Witness ==
    /\ RawOf(1, IIO_TEMP) /\ call[1].ret = 4
    /\ call[1].buf[0] = 255 /\ call[1].buf[1] = 255
    /\ call[1].buf[2] = 80 /\ call[1].buf[3] = 8
    /\ call[1].val = 5122

\* C3: a Humidity (2 bytes) or Temperature (4 bytes) Raw read whose transport
\* returned any other count (fewer, more, zero, negative) returns -EIO and
\* leaves the caller's outputs as they were before the call.
C3_ShortReadIsEIO ==
    \A c \in Callers :
      (\/ RawOf(c, IIO_HUMIDITYRELATIVE) /\ call[c].ret # 2
       \/ RawOf(c, IIO_TEMP) /\ call[c].ret # 4) =>
        /\ call[c].rc = -EIO
        /\ call[c].wr = {}
        /\ call[c].val = call[c].pre.val
        /\ call[c].val2 = call[c].pre.val2

C3_Witness ==
    /\ RawOf(1, IIO_TEMP) /\ call[1].ret = 2
    /\ call[1].buf[0] = 18 /\ call[1].buf[1] = 52
    /\ call[1].rc = -EIO /\ call[1].val = 165

\* C4: a Scale read issues no bus transaction and returns the fractional
\* result type with (100, 16384) for Humidity and (100, 9929) for Temperature,
\* whatever the outputs held before and whatever call came before; so two
\* Scale reads of the same quantity return the same result.
C4_ScaleIsFixed ==
    \A c \in Callers :
      (Done(c) /\ call[c].mask = IIO_CHAN_INFO_SCALE) =>
        /\ call[c].tx = <<>>
        /\ call[c].rc = IIO_VAL_FRACTIONAL
        /\ call[c].chan = IIO_HUMIDITYRELATIVE =>
             (call[c].val = 100 /\ call[c].val2 = 16384)
        /\ call[c].chan = IIO_TEMP =>
             (call[c].val = 100 /\ call[c].val2 = 9929)

C4_Witness ==
    /\ Done(1) /\ call[1].mask = IIO_CHAN_INFO_SCALE
    /\ call[1].chan = IIO_TEMP /\ call[1].afterFail
    /\ call[1].pre.val2 = -1 /\ call[1].val2 = 9929 /\ call[1].val = 100

\* C5: a Temperature/Offset read returns the integer result type with value
\* -40 and issues no bus transaction, also right after a failed read.
C5_TempOffset ==
    \A c \in Callers :
      (Done(c) /\ call[c].mask = IIO_CHAN_INFO_OFFSET
               /\ call[c].chan = IIO_TEMP) =>
        /\ call[c].rc = IIO_VAL_INT
        /\ call[c].val = -40
        /\ call[c].tx = <<>>

C5_Witness ==
    /\ Done(1) /\ call[1].mask = IIO_CHAN_INFO_OFFSET
    /\ call[1].chan = IIO_TEMP /\ call[1].afterFail
    /\ call[1].pre.val = 165 /\ call[1].val = -40

\* C6 (as claimed): a Raw read for a quantity other than Humidity or
\* Temperature returns -EINVAL and performs no bus transaction.
C6_OtherRawIsEINVAL ==
    \A c \in Callers :
      (Done(c) /\ call[c].mask = IIO_CHAN_INFO_RAW
               /\ call[c].chan \notin {IIO_HUMIDITYRELATIVE, IIO_TEMP}) =>
        /\ call[c].rc = -EINVAL
        /\ call[c].tx = <<>>

\* C7: on a bus lacking byte-write or word-read, probe fails with -EOPNOTSUPP
\* before anything is allocated or registered: the device is never bound, no
\* read entry point is exposed, no call and no transaction ever happens; and
\* no read ever returns -EOPNOTSUPP (the check is made at bind time only).
C7_UnsupportedBusNeverBinds ==
    /\ ~({I2C_FUNC_SMBUS_WRITE_BYTE, I2C_FUNC_SMBUS_READ_WORD_DATA} \subseteq funcs) =>
         /\ dev # "bound"
         /\ dev = "probe_failed" => probeRet = -EOPNOTSUPP
         /\ priv = "NULL" /\ info = "NULL" /\ ~registered
         /\ \A c \in Callers : call[c] = NoCall
    /\ \A c \in Callers : Done(c) => call[c].rc # -EOPNOTSUPP

C7_Witness ==
    /\ funcs = {I2C_FUNC_SMBUS_WRITE_BYTE}
    /\ dev = "probe_failed" /\ probeRet = -EOPNOTSUPP
    /\ ~registered

OneFetch(n) == <<[cmd |-> 223, len |-> n]>>

\* C8 (as claimed): every Raw read issues exactly one bus transaction
\* (command 0xDF, length 2 for Humidity, 4 for Temperature).
C8_EveryRawReadOneTransaction ==
    \A c \in Callers :
      (Done(c) /\ call[c].mask = IIO_CHAN_INFO_RAW) =>
        /\ Len(call[c].tx) = 1
        /\ call[c].tx[1].cmd = 223
        /\ call[c].chan = IIO_HUMIDITYRELATIVE => call[c].tx[1].len = 2
        /\ call[c].chan = IIO_TEMP => call[c].tx[1].len = 4

\* C8 (amended): every Raw read of Humidity or Temperature issues exactly one
\* bus transaction, command 0xDF with length 2 for Humidity and 4 for
\* Temperature, whether it succeeds or fails; there is no second one.
C8_SensorRawReadOneTransaction ==
    \A c \in Callers :
      /\ RawOf(c, IIO_HUMIDITYRELATIVE) => call[c].tx = OneFetch(2)
      /\ RawOf(c, IIO_TEMP) => call[c].tx = OneFetch(4)

C8_Witness ==
    /\ RawOf(1, IIO_TEMP) /\ call[1].ret = -110
    /\ call[1].rc = -EIO /\ call[1].tx = OneFetch(4)

InHandler(c) == call[c].pc \in {"called", "fetched"}

\* the outcome of a finished Humidity/Temperature Raw read, from its own
\* request and the reply of its own transaction
C9_OwnOutcome(c) ==
    LET r == call[c]
        n == IF r.chan = IIO_HUMIDITYRELATIVE THEN 2 ELSE 4
    IN  IF r.ret = n
        THEN /\ r.rc = IIO_VAL_INT
             /\ r.val = IF r.chan = IIO_HUMIDITYRELATIVE
                        THEN (r.buf[0] % 64) * 256 + r.buf[1]
                        ELSE r.buf[2] * 64 + (r.buf[3] \div 4)
        ELSE /\ r.rc = -EIO
             /\ r.wr = {}
             /\ r.val = r.pre.val /\ r.val2 = r.pre.val2

\* a step of a caller inside the handler changes neither the device binding
\* nor anything another caller holds
C9_StepIsLocal ==
    \A c \in Callers :
      (InHandler(c) /\ call'[c] # call[c]) =>
        /\ UNCHANGED <<funcs, dev, probeRet, priv, info, registered>>
        /\ \A d \in Callers \ {c} : call'[d] = call[d]

\* C9: no reading is retained between calls. Under any interleaving of the
\* callers (each bus transaction atomic), a finished Humidity/Temperature Raw
\* read has the outcome its own request and its own reply determine: it fails
\* with -EIO and unwritten outputs iff its own transaction did not return the
\* requested count, also when re-issued after a failure; and no step of a
\* read changes the device binding or another caller's call.
C9_NoRetainedReading ==
    /\ [](\A c \in Callers :
            (RawOf(c, IIO_HUMIDITYRELATIVE) \/ RawOf(c, IIO_TEMP)) =>
               C9_OwnOutcome(c))
    /\ [][C9_StepIsLocal]_vars

C9_Witness ==
    /\ RawOf(1, IIO_HUMIDITYRELATIVE) /\ call[1].afterFail
    /\ call[1].ret = 2 /\ call[1].rc = IIO_VAL_INT
    /\ call[1].buf[0] = 8 /\ call[1].buf[1] = 255 /\ call[1].val = 2303
    /\ call[2].pc = "fetched" /\ call[2].chan = IIO_TEMP
    /\ call[2].buf[0] = 255 /\ call[2].buf[1] = 255

\* C10 (as claimed): whenever a read returns a success result type, the call
\* has assigned every output the type makes meaningful: val for the integer
\* type, val and val2 for the fractional type.
C10_SuccessAssignsOutputs ==
    \A c \in Callers :
      Done(c) =>
        /\ call[c].rc = IIO_VAL_INT => "val" \in call[c].wr
        /\ call[c].rc = IIO_VAL_FRACTIONAL => {"val", "val2"} \subseteq call[c].wr

\* For the (quantity, aspect) pairs chipcap2_channels offers, every success
\* return has assigned the outputs its result type makes meaningful.
OfferedPairsAssignOutputs ==
    \A c \in Callers :
      (Done(c) /\ Offered(call[c].chan, call[c].mask)) =>
        /\ call[c].rc = IIO_VAL_INT => "val" \in call[c].wr
        /\ call[c].rc = IIO_VAL_FRACTIONAL => {"val", "val2"} \subseteq call[c].wr

====
